---- MODULE Spec2Model ----
(***************************************************************************)
(* Model of the EBML schema-definition parsers (src/src/parsers/mod.rs).   *)
(*                                                                         *)
(* The parsers are pure functions over an immutable byte buffer.  A parser *)
(* is an operator P(s, r): s is the whole buffer (a sequence of byte       *)
(* values 0..255) and r the result of what was parsed before it,           *)
(*     [st |-> "Done" | "Error" | "Incomplete" | "Panic", pos, val]        *)
(* where pos is the 1-based cursor (the remainder is s[pos..]).  A parser  *)
(* hands a failed r on unchanged, so a sequence of parsers is a            *)
(* composition: c(s, b(s, a(s, r))) is `a >> b >> c`.                      *)
(* Numbers wider than 32 bits are kept as canonical decimal digit          *)
(* sequences with a sign, so that 64-bit limits are exact.                 *)
(***************************************************************************)
EXTENDS Integers, Sequences, FiniteSets, TLC

VARIABLES input, gen, op, res

vars == <<input, gen, op, res>>

(***************************************************************************)
(* Bytes                                                                   *)
(***************************************************************************)
TAB == 9
LF == 10
CR == 13
SPACE == 32
QUOTE == 34

Rest(s, i) == SubSeq(s, i, Len(s))

(***************************************************************************)
(* Result records                                                          *)
(***************************************************************************)
NoVal == <<>>
Done(p, v) == [st |-> "Done", pos |-> p, val |-> v]
Error(p) == [st |-> "Error", pos |-> p, val |-> NoVal]
Incomplete(p) == [st |-> "Incomplete", pos |-> p, val |-> NoVal]
Panic(p) == [st |-> "Panic", pos |-> p, val |-> NoVal]

\* complete!: an Incomplete result becomes an Error
Complete(r) == IF r.st = "Incomplete" THEN Error(r.pos) ELSE r

(***************************************************************************)
(* Character classes (nom is_digit, is_hex_digit, AsChar)                  *)
(***************************************************************************)
is_digit(b) == b \in 48..57
is_hex_digit(b) == b \in 48..57 \/ b \in 65..70 \/ b \in 97..102
\* AsChar for u8: ASCII only
is_alpha_u8(b) == b \in 65..90 \/ b \in 97..122
is_alphanum_u8(b) == is_alpha_u8(b) \/ is_digit(b)
\* AsChar for char: `input[0] as char` maps the byte to a Latin-1 code point
\* and char::is_alphabetic is the Unicode property
is_alpha_char(b) ==
  \/ is_alpha_u8(b)
  \/ b \in {170, 181, 186}
  \/ b \in 192..214
  \/ b \in 216..246
  \/ b \in 248..255

(***************************************************************************)
(* str::from_utf8 / String::from_utf8 validity                             *)
(***************************************************************************)
IsCont(bs, k) == k <= Len(bs) /\ bs[k] \in 128..191

RECURSIVE Utf8From(_, _)
Utf8From(bs, k) ==
  IF k > Len(bs) THEN TRUE
  ELSE LET b == bs[k] IN
    IF b <= 127 THEN Utf8From(bs, k + 1)
    ELSE IF b \in 194..223 THEN IsCont(bs, k + 1) /\ Utf8From(bs, k + 2)
    ELSE IF b \in 224..239 THEN
      /\ IsCont(bs, k + 1) /\ IsCont(bs, k + 2)
      /\ (b = 224 => bs[k + 1] >= 160)
      /\ (b = 237 => bs[k + 1] <= 159)
      /\ Utf8From(bs, k + 3)
    ELSE IF b \in 240..244 THEN
      /\ IsCont(bs, k + 1) /\ IsCont(bs, k + 2) /\ IsCont(bs, k + 3)
      /\ (b = 240 => bs[k + 1] >= 144)
      /\ (b = 244 => bs[k + 1] <= 143)
      /\ Utf8From(bs, k + 4)
    ELSE FALSE

from_utf8_ok(bs) == Utf8From(bs, 1)

(***************************************************************************)
(* from_hex                                                                *)
(***************************************************************************)
None == [some |-> FALSE, v |-> NoVal]
Some(x) == [some |-> TRUE, v |-> x]

RECURSIVE from_hex_loop(_, _, _, _, _)
from_hex_loop(s, k, b, modulus, buf) ==
  IF k > Len(s) THEN (IF modulus = 0 THEN Some(b) ELSE None)
  ELSE
    LET byte == s[k]
        sh == (buf * 16) % 256      \* buf <<= 4 on a u8
    IN
    IF byte \in {SPACE, CR, LF, TAB}
    THEN from_hex_loop(s, k + 1, b, modulus, sh \div 16)
    ELSE IF ~is_hex_digit(byte) THEN None
    ELSE
      LET nib == IF byte \in 65..70 THEN byte - 65 + 10
                 ELSE IF byte \in 97..102 THEN byte - 97 + 10
                 ELSE byte - 48
          \* buf |= nib: the low nibble of sh is zero
          nbuf == sh + nib
      IN IF modulus + 1 = 2
         THEN from_hex_loop(s, k + 1, Append(b, nbuf), 0, nbuf)
         ELSE from_hex_loop(s, k + 1, b, modulus + 1, nbuf)

\* the decoder without the `buf >>= 4` that undoes the shift on a blank
RECURSIVE from_hex_loop_noshift(_, _, _, _, _)
from_hex_loop_noshift(s, k, b, modulus, buf) ==
  IF k > Len(s) THEN (IF modulus = 0 THEN Some(b) ELSE None)
  ELSE
    LET byte == s[k]
        sh == (buf * 16) % 256
    IN
    IF byte \in {SPACE, CR, LF, TAB}
    THEN from_hex_loop_noshift(s, k + 1, b, modulus, sh)
    ELSE IF ~is_hex_digit(byte) THEN None
    ELSE
      LET nib == IF byte \in 65..70 THEN byte - 65 + 10
                 ELSE IF byte \in 97..102 THEN byte - 97 + 10
                 ELSE byte - 48
          nbuf == sh + nib
      IN IF modulus + 1 = 2
         THEN from_hex_loop_noshift(s, k + 1, Append(b, nbuf), 0, nbuf)
         ELSE from_hex_loop_noshift(s, k + 1, b, modulus + 1, nbuf)

from_hex_noshift(s) == from_hex_loop_noshift(s, 1, <<>>, 0, 0)

from_hex(s) == from_hex_loop(s, 1, <<>>, 0, 0)

(***************************************************************************)
(* Primitive combinators                                                   *)
(***************************************************************************)
Start(i) == Done(i, NoVal)

\* position of a result, value of another (delimited!, terminated!)
WithVal(p, x) == IF p.st = "Done" THEN Done(p.pos, x.val) ELSE p

\* take_while!: first position at or after i whose byte fails the predicate
RECURSIVE RunEnd(_, _, _)
RunEnd(pred(_), s, i) ==
  IF i > Len(s) \/ ~pred(s[i]) THEN i ELSE RunEnd(pred, s, i + 1)

\* tag!: compare over the common length; a strict prefix of the tag is
\* Incomplete
tag_at(t, s, i, m) ==
  IF SubSeq(s, i, i + m - 1) # SubSeq(t, 1, m) THEN Error(i)
  ELSE IF m < Len(t) THEN Incomplete(i)
  ELSE Done(i + Len(t), t)

tag(t, s, r) ==
  IF r.st # "Done" THEN r
  ELSE tag_at(t, s, r.pos,
              IF Len(s) - r.pos + 1 < Len(t) THEN Len(s) - r.pos + 1 ELSE Len(t))

\* first index >= i where t occurs in s, or 0
RECURSIVE Find(_, _, _)
Find(t, s, i) ==
  IF i + Len(t) - 1 > Len(s) THEN 0
  ELSE IF SubSeq(s, i, i + Len(t) - 1) = t THEN i
  ELSE Find(t, s, i + 1)

\* alt_complete!: alternatives in order, an Incomplete one counts as a
\* failure; the first success wins (a panic unwinds through it)
OrElse(a, b) == IF a.st \in {"Done", "Panic"} THEN a ELSE Complete(b)

\* map_res!/map_opt!: a failed conversion is an Error at the start
Conv(i, e, c) == IF c.some THEN Done(e, c.v) ELSE Error(i)

(***************************************************************************)
(* Lexical layer: comments and separator                                   *)
(***************************************************************************)
is_space(b) == b \in {SPACE, TAB, CR, LF}

\* nom sp: eat_separator!(" \t\r\n"), always Done
sp(s, i) == RunEnd(is_space, s, i)

sp_after(s, c) == IF c.st = "Done" THEN Done(sp(s, c.pos), NoVal) ELSE c

\* take_until_and_consume!
found_and_consume(t, s, i, k) ==
  IF k = 0 THEN Error(i) ELSE Done(k + Len(t), SubSeq(s, i, k - 1))

take_until_and_consume(t, s, r) ==
  IF r.st # "Done" THEN r
  ELSE IF Len(t) > Len(s) - r.pos + 1 THEN Incomplete(r.pos)
  ELSE found_and_consume(t, s, r.pos, Find(t, s, r.pos))

\* take_until!
found(t, s, i, k) ==
  IF k = 0 THEN Error(i) ELSE Done(k, SubSeq(s, i, k - 1))

take_until(t, s, r) ==
  IF r.st # "Done" THEN r
  ELSE IF Len(t) > Len(s) - r.pos + 1 THEN Incomplete(r.pos)
  ELSE found(t, s, r.pos, Find(t, s, r.pos))

\* map_res!(.., str::from_utf8)
Utf8Res(r) ==
  IF r.st = "Done" /\ ~from_utf8_ok(r.val) THEN Error(r.pos) ELSE r

lcomment(s, r) ==
  Utf8Res(take_until_and_consume(<<LF>>, s, tag(<<47, 47>>, s, r)))

bcomment(s, r) ==
  Utf8Res(take_until_and_consume(<<42, 47>>, s, tag(<<47, 42>>, s, r)))

\* alt!: an Incomplete alternative is returned at once
Alt(a, b) == IF a.st # "Error" THEN a ELSE b

comment(s, r) == Alt(lcomment(s, r), bcomment(s, r))

\* ws!(comment)
ws_comment(s, i) == sp_after(s, comment(s, Start(sp(s, i))))

\* fold_many0!(ws!(comment), (), ..)
RECURSIVE comments(_, _)
comments_step(s, i, c) ==
  IF c.st = "Error" THEN Done(i, NoVal)
  ELSE IF c.st # "Done" THEN c
  ELSE IF c.pos = i THEN Error(i)
  ELSE comments(s, c.pos)

comments(s, i) ==
  IF i > Len(s) THEN Done(i, NoVal) ELSE comments_step(s, i, ws_comment(s, i))

separator(s, r) ==
  IF r.st # "Done" THEN r ELSE sp_after(s, comments(s, sp(s, r.pos)))

(***************************************************************************)
(* name                                                                    *)
(***************************************************************************)
is_name_cont(b) == is_alphanum_u8(b) \/ b = 95

\* str::from_utf8(&input[..]).unwrap() of the run s[i .. e - 1]
name_run(s, i, e) ==
  IF from_utf8_ok(SubSeq(s, i, e - 1)) THEN Done(e, SubSeq(s, i, e - 1))
  ELSE Panic(i)

name_at(s, i) ==
  IF Len(s) - i + 1 = 0 THEN Incomplete(i)
  ELSE IF ~is_alpha_char(s[i]) /\ s[i] # 95 THEN Error(i)
  ELSE name_run(s, i, RunEnd(is_name_cont, s, i + 1))

\* the scanner without the check of the first byte
name_any_first(s, r) ==
  IF r.st # "Done" THEN r
  ELSE IF Len(s) - r.pos + 1 = 0 THEN Incomplete(r.pos)
  ELSE IF ~is_name_cont(s[r.pos]) THEN Error(r.pos)
  ELSE name_run(s, r.pos, RunEnd(is_name_cont, s, r.pos))

name(s, r) == IF r.st # "Done" THEN r ELSE name_at(s, r.pos)

(***************************************************************************)
(* Integer conversion (FromStr for the integer types)                      *)
(***************************************************************************)
\* canonical decimal magnitude: digit values, no leading zero; zero is <<0>>
RECURSIVE StripZeros(_)
StripZeros(d) ==
  IF Len(d) > 1 /\ d[1] = 0 THEN StripZeros(Tail(d)) ELSE d

RECURSIVE LexLe(_, _, _)
LexLe(a, b, k) ==
  IF k > Len(a) THEN TRUE
  ELSE IF a[k] < b[k] THEN TRUE
  ELSE IF a[k] > b[k] THEN FALSE
  ELSE LexLe(a, b, k + 1)

\* a <= b on canonical magnitudes
MagLe(a, b) == Len(a) < Len(b) \/ (Len(a) = Len(b) /\ LexLe(a, b, 1))

I64Max == <<9,2,2,3,3,7,2,0,3,6,8,5,4,7,7,5,8,0,7>>
I64MinMag == <<9,2,2,3,3,7,2,0,3,6,8,5,4,7,7,5,8,0,8>>
\* the unsigned values (Property::UintDefault, HeaderStatement::Uint) are
\* taken as u64: their type is declared outside the parsers
U64Max == <<1,8,4,4,6,7,4,4,0,7,3,7,0,9,5,5,1,6,1,5>>

Num(n, m) == [neg |-> n, mag |-> m]

\* an accumulation that accepts every magnitude
unchecked(minus, mag, maxPos, maxNegMag) ==
  Some(Num(minus /\ mag # <<0>>, mag))

\* the checked accumulation: a magnitude beyond the limit is an overflow
checked(minus, mag, maxPos, maxNegMag) ==
  IF minus
  THEN IF MagLe(mag, maxNegMag) THEN Some(Num(mag # <<0>>, mag)) ELSE None
  ELSE IF MagLe(mag, maxPos) THEN Some(Num(FALSE, mag)) ELSE None

from_digits(minus, digits, maxPos, maxNegMag) ==
  IF digits = <<>> \/ \E k \in 1..Len(digits) : ~is_digit(digits[k])
  THEN None
  ELSE checked(minus, StripZeros([k \in 1..Len(digits) |-> digits[k] - 48]),
               maxPos, maxNegMag)

\* from_str_radix(src, 10) of the integer types: optional sign ('-' only
\* for a signed type), at least one digit, digits only, checked arithmetic
from_str_int(run, signed, maxPos, maxNegMag) ==
  IF run = <<>> THEN None
  ELSE IF run[1] = 43 \/ (signed /\ run[1] = 45)
  THEN from_digits(run[1] = 45, Tail(run), maxPos, maxNegMag)
  ELSE from_digits(FALSE, run, maxPos, maxNegMag)

from_str_i64(run) == from_str_int(run, TRUE, I64Max, I64MinMag)
from_str_u64(run) == from_str_int(run, FALSE, U64Max, <<0>>)

is_int_char(b) == is_digit(b) \/ b = 45

int_run(s, i, e) == Conv(i, e, from_str_i64(SubSeq(s, i, e - 1)))

int_v(s, r) ==
  IF r.st # "Done" THEN r
  ELSE int_run(s, r.pos, RunEnd(is_int_char, s, r.pos))

uint_run(s, i, e) == Conv(i, e, from_str_u64(SubSeq(s, i, e - 1)))

\* map_res!(map_res!(take_while!(is_digit), str::from_utf8), FromStr::from_str)
uint_v(s, r) ==
  IF r.st # "Done" THEN r
  ELSE uint_run(s, r.pos, RunEnd(is_digit, s, r.pos))

(***************************************************************************)
(* float_v: the run over [0-9-+.e] must be a decimal float literal         *)
(***************************************************************************)
is_float_char(b) == is_digit(b) \/ b \in {45, 43, 46, 101}

\* The value is kept as the decimal it denotes.
Decimal(neg, integral, fractional, exponent) ==
  [neg |-> neg, integral |-> integral, fractional |-> fractional,
   exponent |-> exponent]

\* the exponent digits t[xs..] must reach the end of the text
f64_exp_digits(neg, t, integral, fractional, x, xs, xe) ==
  IF xe <= Len(t) \/ xe = xs THEN None
  ELSE Some(Decimal(neg, integral, fractional, SubSeq(t, x, xe - 1)))

f64_exp_sign(neg, t, integral, fractional, x, xs) ==
  f64_exp_digits(neg, t, integral, fractional, x, xs, RunEnd(is_digit, t, xs))

\* after the `e` at t[x - 1]: [sign] digits
f64_exp(neg, t, integral, fractional, x) ==
  f64_exp_sign(neg, t, integral, fractional, x,
               IF x <= Len(t) /\ t[x] \in {43, 45} THEN x + 1 ELSE x)

\* after the point at t[ie]: the fraction is t[ie + 1 .. fe - 1]
f64_fraction(neg, t, ie, fe) ==
  IF ie = 1 /\ fe = ie + 1 THEN None
  ELSE IF fe > Len(t)
  THEN Some(Decimal(neg, SubSeq(t, 1, ie - 1), SubSeq(t, ie + 1, fe - 1), <<>>))
  ELSE IF t[fe] = 101
  THEN f64_exp(neg, t, SubSeq(t, 1, ie - 1), SubSeq(t, ie + 1, fe - 1), fe + 1)
  ELSE None

\* after the integral digits t[1 .. ie - 1]
f64_integral(neg, t, ie) ==
  IF ie > Len(t) THEN Some(Decimal(neg, t, <<>>, <<>>))
  ELSE IF t[ie] = 101
  THEN (IF ie = 1 THEN None
        ELSE f64_exp(neg, t, SubSeq(t, 1, ie - 1), <<>>, ie + 1))
  ELSE IF t[ie] = 46 THEN f64_fraction(neg, t, ie, RunEnd(is_digit, t, ie + 1))
  ELSE None

f64_decimal(neg, t) ==
  IF t = <<>> THEN None ELSE f64_integral(neg, t, RunEnd(is_digit, t, 1))

\* <f64 as FromStr>::from_str restricted to the bytes float_v can hand it:
\* [sign] digits [. digits] [e [sign] digits], a digit on one side of the
\* point
from_str_f64(run) ==
  IF run = <<>> THEN None
  ELSE IF run[1] \in {43, 45} THEN f64_decimal(run[1] = 45, Tail(run))
  ELSE f64_decimal(FALSE, run)

float_run(s, i, e) == Conv(i, e, from_str_f64(SubSeq(s, i, e - 1)))

float_v(s, r) ==
  IF r.st # "Done" THEN r
  ELSE float_run(s, r.pos, RunEnd(is_float_char, s, r.pos))

(***************************************************************************)
(* Punctuation                                                             *)
(***************************************************************************)
\* pair!(separator, tag!(";"))
terminator(s, r) == tag(<<59>>, s, separator(s, r))

\* terminated!(X, pair!(separator, tag!(";"))): x is the result of X
terminated(s, x) == WithVal(terminator(s, x), x)

\* tuple!(tag!(kw), separator, tag!(":"), separator)
keyword_colon(kw, s, r) ==
  separator(s, tag(<<58>>, s, separator(s, tag(kw, s, r))))

\* delimited!(separator, tag!(","), separator)
comma(s, r) == separator(s, tag(<<44>>, s, separator(s, r)))

\* map!
MapVal(r, v) == IF r.st = "Done" THEN Done(r.pos, v) ELSE r

(***************************************************************************)
(* date_v                                                                  *)
(***************************************************************************)
RECURSIVE MagToInt(_)
MagToInt(d) ==
  IF d = <<>> THEN 0 ELSE 10 * MagToInt(SubSeq(d, 1, Len(d) - 1)) + d[Len(d)]

small_value(c) ==
  IF ~c.some THEN None
  ELSE Some(IF c.v.neg THEN 0 - MagToInt(c.v.mag) ELSE MagToInt(c.v.mag))

\* FromStr of a take!(n) slice (n <= 4, so no width overflow)
small_int(run, signed) ==
  IF ~from_utf8_ok(run) THEN None
  ELSE small_value(from_str_int(run, signed, I64Max, I64MinMag))

IsLeap(y) == (y % 4 = 0 /\ y % 100 # 0) \/ y % 400 = 0

DaysIn(y, m) ==
  IF m \in {4, 6, 9, 11} THEN 30
  ELSE IF m = 2 THEN (IF IsLeap(y) THEN 29 ELSE 28)
  ELSE 31

\* NaiveDate::from_ymd_opt
from_ymd_ok(y, m, d) == m \in 1..12 /\ d >= 1 /\ d <= DaysIn(y, m)

\* NaiveTime::from_hms_opt / from_hms_nano_opt
from_hms_ok(h, mi, sec, nano) ==
  h < 24 /\ mi < 60 /\ sec < 60 /\ nano < 2000000000

NanoDigits == 9

\* (part * NANOS_PER_SEC) as u32 for part = 0.d1d2..: the first nine
\* fractional digits, truncated (the rounding of the f64 product aside)
frac_nanos(ds) ==
  MagToInt([k \in 1..NanoDigits |-> IF k <= Len(ds) THEN ds[k] - 48 ELSE 0])

Ymd(y, mo, d, h, mi, sec, nano) ==
  [form |-> "ymd", year |-> y, month |-> mo, day |-> d, hour |-> h,
   minute |-> mi, second |-> sec, nano |-> nano]

\* the two map_opt!: the time, then the date
date_checked(i, e, y, mo, d, h, mi, sec, nano) ==
  IF ~from_hms_ok(h, mi, sec, nano) THEN Error(i)
  ELSE IF ~from_ymd_ok(y, mo, d) THEN Error(i)
  ELSE Done(e, Ymd(y, mo, d, h, mi, sec, nano))

\* opt!(.. pair!(tag!("."), take_while!(is_digit)) ..): a point without
\* digits is no fraction and is not consumed
date_fraction(s, i, f, fe, y, mo, d, h, mi, sec) ==
  IF s[f] = 46 /\ fe > f + 1
  THEN date_checked(i, fe, y, mo, d, h, mi, sec,
                    frac_nanos(SubSeq(s, f + 1, fe - 1)))
  ELSE date_checked(i, f, y, mo, d, h, mi, sec, 0)

date_fields(s, i, year, month, day, hour, minute, second) ==
  IF ~(year.some /\ month.some /\ day.some /\ s[i + 8] = 84
       /\ hour.some /\ s[i + 11] = 58 /\ minute.some /\ s[i + 14] = 58
       /\ second.some)
  THEN Error(i)
  \* opt!(tag!(".") ..) at the end of the buffer is Incomplete
  ELSE IF i + 17 > Len(s) THEN Incomplete(i)
  ELSE date_fraction(s, i, i + 17, RunEnd(is_digit, s, i + 18),
                     year.v, month.v, day.v, hour.v, minute.v, second.v)

\* first alternative of date_v: YYYYMMDDThh:mm:ss[.fraction]
date_compact(s, i) ==
  IF Len(s) < i + 16 THEN Incomplete(i)
  ELSE date_fields(s, i,
                   small_int(SubSeq(s, i, i + 3), TRUE),
                   small_int(SubSeq(s, i + 4, i + 5), FALSE),
                   small_int(SubSeq(s, i + 6, i + 7), FALSE),
                   small_int(SubSeq(s, i + 9, i + 10), FALSE),
                   small_int(SubSeq(s, i + 12, i + 13), FALSE),
                   small_int(SubSeq(s, i + 15, i + 16), FALSE))

Offset(ns) == [form |-> "offset", ns |-> ns]

offset_of(x) == IF x.st = "Done" THEN Done(x.pos, Offset(x.val)) ELSE x

\* second alternative: nanoseconds since 2001-01-01T00:00:00
date_offset(s, r) == offset_of(int_v(s, r))

date_v(s, r) ==
  IF r.st # "Done" THEN r
  ELSE OrElse(Complete(date_compact(s, r.pos)), date_offset(s, r))

(***************************************************************************)
(* binary_v                                                                *)
(***************************************************************************)
hex_decode(s, p, e) == Conv(p, e, from_hex(SubSeq(s, p, e - 1)))

hex_run(s, t) ==
  IF t.st # "Done" THEN t
  ELSE hex_decode(s, t.pos, RunEnd(is_hex_digit, s, t.pos))

binary_hex(s, r) == hex_run(s, tag(<<48, 120>>, s, r))

quoted_close(s, c) == WithVal(tag(<<QUOTE>>, s, c), c)

binary_quoted(s, r) ==
  quoted_close(s, take_until(<<QUOTE>>, s, tag(<<QUOTE>>, s, r)))

binary_v(s, r) ==
  IF r.st # "Done" THEN r
  ELSE OrElse(Complete(binary_hex(s, r)), binary_quoted(s, r))

\* the conversion without the UTF-8 check
from_utf8_string_unchecked(i, b) == b

\* map_res!(.., String::from_utf8)
from_utf8_string(i, b) ==
  IF b.st = "Done" /\ ~from_utf8_ok(b.val) THEN Error(i) ELSE b

string_v(s, r) == from_utf8_string(r.pos, binary_v(s, r))

(***************************************************************************)
(* Default properties                                                      *)
(***************************************************************************)
KW_def == <<100, 101, 102>>
KW_range == <<114, 97, 110, 103, 101>>
DOTDOT == <<46, 46>>

Prop(k, v) == [prop |-> k, v |-> v]

prop(k, x) == IF x.st = "Done" THEN Done(x.pos, Prop(k, x.val)) ELSE x

int_def(s, r) ==
  prop("IntDefault", terminated(s, int_v(s, keyword_colon(KW_def, s, r))))

uint_def(s, r) ==
  prop("UintDefault", terminated(s, uint_v(s, keyword_colon(KW_def, s, r))))

float_def(s, r) ==
  prop("FloatDefault", terminated(s, float_v(s, keyword_colon(KW_def, s, r))))

date_def(s, r) ==
  prop("DateDefault", terminated(s, date_v(s, keyword_colon(KW_def, s, r))))

string_def(s, r) ==
  prop("StringDefault", terminated(s, string_v(s, keyword_colon(KW_def, s, r))))

binary_def(s, r) ==
  prop("BinaryDefault", terminated(s, binary_v(s, keyword_colon(KW_def, s, r))))

(***************************************************************************)
(* Range items                                                             *)
(***************************************************************************)
Bounded(a, b) == [item |-> "Bounded", start |-> a, end |-> b]
From(a) == [item |-> "From", start |-> a]
To(b) == [item |-> "To", end |-> b]
Single(a) == [item |-> "Single", v |-> a]

\* the value parser of a domain
value_of(dom, s, r) ==
  IF dom = "int" THEN int_v(s, r)
  ELSE IF dom = "uint" THEN uint_v(s, r)
  ELSE date_v(s, r)

bounded_of(a, b) ==
  IF b.st = "Done" THEN Done(b.pos, Bounded(a.val, b.val)) ELSE b

bounded_from(dom, s, a) == bounded_of(a, value_of(dom, s, tag(DOTDOT, s, a)))

\* start: V >> tag!("..") >> end: V
item_bounded(dom, s, r) == bounded_from(dom, s, value_of(dom, s, r))

from_of(t, a) == IF t.st = "Done" THEN Done(t.pos, From(a.val)) ELSE t

from_dots(s, a) == from_of(tag(DOTDOT, s, a), a)

\* terminated!(V, tag!(".."))
item_from(dom, s, r) == from_dots(s, value_of(dom, s, r))

to_of(b) == IF b.st = "Done" THEN Done(b.pos, To(b.val)) ELSE b

\* preceded!(tag!(".."), V)
item_to(dom, s, r) == to_of(value_of(dom, s, tag(DOTDOT, s, r)))

single_of(a) == IF a.st = "Done" THEN Done(a.pos, Single(a.val)) ELSE a

item_single(dom, s, r) == single_of(value_of(dom, s, r))

\* the alternatives with the single value tried first
int_range_item_single_first(s, r) ==
  IF r.st # "Done" THEN r
  ELSE OrElse(OrElse(OrElse(Complete(item_single("int", s, r)),
                            item_bounded("int", s, r)),
                     item_from("int", s, r)),
              item_to("int", s, r))

int_range_item(s, r) ==
  IF r.st # "Done" THEN r
  ELSE OrElse(OrElse(OrElse(Complete(item_bounded("int", s, r)),
                            item_from("int", s, r)),
                     item_to("int", s, r)),
              item_single("int", s, r))

uint_range_item(s, r) ==
  IF r.st # "Done" THEN r
  ELSE OrElse(OrElse(Complete(item_bounded("uint", s, r)),
                     item_from("uint", s, r)),
              item_single("uint", s, r))

date_range_item(s, r) ==
  IF r.st # "Done" THEN r
  ELSE OrElse(OrElse(Complete(item_bounded("date", s, r)),
                     item_from("date", s, r)),
              item_to("date", s, r))

(***************************************************************************)
(* header_statement                                                        *)
(***************************************************************************)
ASSIGN == <<58, 61>>

Stmt(k, n, v) == [kind |-> k, name |-> n, value |-> v]

stmt(k, n, x) == IF x.st = "Done" THEN Done(x.pos, Stmt(k, n, x.val)) ELSE x

\* the alternatives with the signed integer tried before the unsigned one
header_value_int_first(s, n) ==
  OrElse(OrElse(OrElse(OrElse(OrElse(OrElse(
    Complete(stmt("Int", n.val, terminated(s, int_v(s, n)))),
    stmt("Uint", n.val, terminated(s, uint_v(s, n)))),
    stmt("Float", n.val, terminated(s, float_v(s, n)))),
    stmt("Date", n.val, terminated(s, date_v(s, n)))),
    stmt("String", n.val, terminated(s, string_v(s, n)))),
    stmt("Binary", n.val, terminated(s, binary_v(s, n)))),
    stmt("Named", n.val, terminated(s, name(s, n))))

\* value: alt_complete!(..), each alternative with its terminator; n is the
\* result of the statement's name and `:=`
header_value(s, n) ==
  OrElse(OrElse(OrElse(OrElse(OrElse(OrElse(
    Complete(stmt("Uint", n.val, terminated(s, uint_v(s, n)))),
    stmt("Int", n.val, terminated(s, int_v(s, n)))),
    stmt("Float", n.val, terminated(s, float_v(s, n)))),
    stmt("Date", n.val, terminated(s, date_v(s, n)))),
    stmt("String", n.val, terminated(s, string_v(s, n)))),
    stmt("Binary", n.val, terminated(s, binary_v(s, n)))),
    stmt("Named", n.val, terminated(s, name(s, n))))

assigned(s, n) == WithVal(separator(s, tag(ASSIGN, s, separator(s, n))), n)

\* name >> separator >> tag!(":=") >> separator
declared_name(s, r) == assigned(s, name(s, r))

statement_value(s, n) == IF n.st # "Done" THEN n ELSE header_value(s, n)

header_statement(s, r) == statement_value(s, declared_name(s, r))

(***************************************************************************)
(* separated_nonempty_list_complete!                                       *)
(***************************************************************************)
list_element(kind, s, r) ==
  IF kind = "int" THEN int_range_item(s, r)
  ELSE IF kind = "uint" THEN uint_range_item(s, r)
  ELSE IF kind = "date" THEN date_range_item(s, r)
  ELSE header_statement(s, r)

list_separator(kind, s, r) ==
  IF kind = "statement" THEN separator(s, r) ELSE comma(s, r)

RECURSIVE list_loop(_, _, _, _)

\* the element after a separator that ended at dp
list_next(kind, s, i, acc, dp, x) ==
  IF x.st = "Panic" THEN x
  ELSE IF x.st # "Done" \/ x.pos = dp THEN Done(i, acc)
  ELSE list_loop(kind, s, x.pos, Append(acc, x.val))

\* a separator that fails or matches nothing ends the list
list_more(kind, s, i, acc, d) ==
  IF d.st # "Done" \/ d.pos = i THEN Done(i, acc)
  ELSE list_next(kind, s, i, acc, d.pos, Complete(list_element(kind, s, d)))

list_loop(kind, s, i, acc) ==
  list_more(kind, s, i, acc, Complete(list_separator(kind, s, Start(i))))

list_first(kind, s, i, x) ==
  IF x.st # "Done" THEN x
  ELSE IF x.pos = i THEN Error(i)
  ELSE list_loop(kind, s, x.pos, <<x.val>>)

separated_nonempty_list(kind, s, r) ==
  IF r.st # "Done" THEN r
  ELSE list_first(kind, s, r.pos, Complete(list_element(kind, s, r)))

(***************************************************************************)
(* Range properties and hblock                                             *)
(***************************************************************************)
range_property(k, dom, s, r) ==
  prop(k, terminated(s, separated_nonempty_list(dom, s,
                                                keyword_colon(KW_range, s, r))))

int_range(s, r) == range_property("IntRange", "int", s, r)
uint_range(s, r) == range_property("UintRange", "uint", s, r)
date_range(s, r) == range_property("DateRange", "date", s, r)

\* UintRangeItem::to_string_range_item and ::to_binary_range_item are declared
\* outside the parsers: an item is kept, variant and values unchanged, when
\* each of its values is a code point (<= 0x10FFFF = 1114111), resp. a byte
\* (<= 0xFF = 255), and is None otherwise
to_string_range_item(it) ==
  IF \A f \in DOMAIN it \ {"item"} : MagLe(it[f].mag, <<1, 1, 1, 4, 1, 1, 1>>)
  THEN Some(it) ELSE None

to_binary_range_item(it) ==
  IF \A f \in DOMAIN it \ {"item"} : MagLe(it[f].mag, <<2, 5, 5>>)
  THEN Some(it) ELSE None

\* Iterator::collect into an Option<Vec<_>>: None when any item is None
collect(opts) ==
  IF \E k \in 1..Len(opts) : ~opts[k].some THEN None
  ELSE Some([k \in 1..Len(opts) |-> opts[k].v])

\* the items that are in the domain are kept, the others dropped
reinterpreted_lenient(dom, i, x) ==
  IF x.st # "Done" THEN x
  ELSE Done(x.pos,
            SelectSeq(x.val.v,
                      LAMBDA it : IF dom = "string"
                                  THEN to_string_range_item(it).some
                                  ELSE to_binary_range_item(it).some))

\* map_opt!(uint_range, |ur| ur.iter().map(|uri| uri.to_..._range_item())
\*                              .collect())
reinterpreted(dom, i, x) ==
  IF x.st # "Done" THEN x
  ELSE Conv(i, x.pos,
            collect([k \in 1..Len(x.val.v) |->
                       IF dom = "string" THEN to_string_range_item(x.val.v[k])
                       ELSE to_binary_range_item(x.val.v[k])]))

string_range(s, r) == reinterpreted("string", r.pos, uint_range(s, r))
binary_range(s, r) == reinterpreted("binary", r.pos, uint_range(s, r))

\* tuple!(tag!("declare"), separator, tag!("header"), separator, tag!("{"),
\*        separator)
header_open(s, r) ==
  separator(s, tag(<<123>>, s, separator(s,
    tag(<<104, 101, 97, 100, 101, 114>>, s,
        separator(s, tag(<<100, 101, 99, 108, 97, 114, 101>>, s, r))))))

hblock(s, r) == separated_nonempty_list("statement", s, header_open(s, r))

(***************************************************************************)
(* type_                                                                   *)
(***************************************************************************)
\* int, uint, float, string, date, binary, container
TypeKeywords ==
  [int |-> <<105, 110, 116>>,
   uint |-> <<117, 105, 110, 116>>,
   float |-> <<102, 108, 111, 97, 116>>,
   string |-> <<115, 116, 114, 105, 110, 103>>,
   date |-> <<100, 97, 116, 101>>,
   binary |-> <<98, 105, 110, 97, 114, 121>>,
   container |-> <<99, 111, 110, 116, 97, 105, 110, 101, 114>>]

Type(t) == [type |-> t, name |-> NoVal]
TypeName(n) == [type |-> "Name", name |-> n]

type_tag(kw, t, s, r) == MapVal(tag(kw, s, r), Type(t))

type_name(x) == IF x.st = "Done" THEN Done(x.pos, TypeName(x.val)) ELSE x

type_(s, r) ==
  IF r.st # "Done" THEN r
  ELSE OrElse(OrElse(OrElse(OrElse(OrElse(OrElse(OrElse(
    Complete(type_tag(TypeKeywords.int, "Int", s, r)),
    type_tag(TypeKeywords.uint, "Uint", s, r)),
    type_tag(TypeKeywords.float, "Float", s, r)),
    type_tag(TypeKeywords.string, "String", s, r)),
    type_tag(TypeKeywords.date, "Date", s, r)),
    type_tag(TypeKeywords.binary, "Binary", s, r)),
    type_tag(TypeKeywords.container, "Container", s, r)),
    type_name(name(s, r)))

(***************************************************************************)
(* dtype                                                                   *)
(***************************************************************************)
NewType(k, n) == [kind |-> k, name |-> n, default |-> None, range |-> None]

\* NewType::update: a default property fills the default slot, a range
\* property the range slot
update(nt, p) ==
  IF p.prop \in {"IntDefault", "UintDefault"}
  THEN [nt EXCEPT !.default = Some(p.v)]
  ELSE IF p.prop \in {"IntRange", "UintRange"}
  THEN [nt EXCEPT !.range = Some(p.v)]
  ELSE nt

update_newtype_with_property(nt, p) == update(nt, p)

\* the default property of a domain: def : V ;
def_property(k, dom, s, r) ==
  prop(k, terminated(s, value_of(dom, s, keyword_colon(KW_def, s, r))))

property_of(k, dom, s, r) ==
  OrElse(Complete(range_property(k \o "Range", dom, s, r)),
         def_property(k \o "Default", dom, s, r))

\* alt_complete!(int_range | int_def), alt_complete!(uint_range | uint_def)
typed_property(kind, s, r) ==
  IF r.st # "Done" THEN r
  ELSE property_of(kind, IF kind = "Int" THEN "int" ELSE "uint", s, r)

\* preceded!(separator, alt_complete!(..))
fold_element(kind, s, r) == typed_property(kind, s, separator(s, r))

RECURSIVE fold_many1_loop(_, _, _, _, _)

\* one application of the element at i: the first one must succeed, a later
\* one that fails or consumes nothing ends the fold; this one keeps the
\* accumulator as it is
fold_many1_step_drop(kind, s, i, acc, first, x) ==
  IF x.st = "Error" THEN (IF first THEN x ELSE Done(i, acc))
  ELSE IF x.st # "Done" THEN x
  ELSE IF ~first /\ x.pos = i THEN Done(i, acc)
  ELSE fold_many1_loop(kind, s, x.pos, acc, FALSE)

fold_many1_step(kind, s, i, acc, first, x) ==
  IF x.st = "Error" THEN (IF first THEN x ELSE Done(i, acc))
  ELSE IF x.st # "Done" THEN x
  ELSE IF ~first /\ x.pos = i THEN Done(i, acc)
  ELSE fold_many1_loop(kind, s, x.pos,
                       update_newtype_with_property(acc, x.val), FALSE)

fold_many1_loop(kind, s, i, acc, first) ==
  IF ~first /\ i > Len(s) THEN Done(i, acc)
  ELSE fold_many1_step(kind, s, i, acc, first, fold_element(kind, s, Start(i)))

\* fold_many1!(P, init, f): at least one P, folded left to right
fold_many1(kind, init, s, r) ==
  IF r.st # "Done" THEN r ELSE fold_many1_loop(kind, s, r.pos, init, TRUE)

\* opt!: an Error is None without consuming, an Incomplete stays Incomplete
opt(t, i) ==
  IF t.st = "Error" THEN Done(i, None)
  ELSE IF t.st = "Done" THEN Done(t.pos, Some(t.val))
  ELSE t

opt_semicolon(s, p) ==
  IF p.st # "Done" THEN p ELSE opt(tag(<<59>>, s, p), p.pos)

\* tuple!(separator, tag!("]"), separator, opt!(tag!(";")))
close_bracket(s, r) ==
  opt_semicolon(s, separator(s, tag(<<93>>, s, separator(s, r))))

bracketed_close(s, f) == WithVal(close_bracket(s, f), f)

\* delimited!(tuple!(separator, tag!("["), separator), fold_many1!(..), close)
bracketed(kind, init, s, r) ==
  bracketed_close(s, fold_many1(kind, init, s,
                                separator(s, tag(<<91>>, s, separator(s, r)))))

\* alt_complete!(delimited!(..) | value!(NewType { default: None, .. }))
with_properties(kind, n, s, t) ==
  OrElse(Complete(bracketed(kind, NewType(kind, n), s, t)),
         Done(t.pos, NewType(kind, n)))

\* the switch! on the type tag; n is the declared name
dtype_switch(n, s, t) ==
  IF t.st # "Done" THEN t
  ELSE IF t.val.type \in {"Int", "Uint"}
  THEN with_properties(t.val.type, n, s, t)
  ELSE Done(t.pos, NewType("Int", n))

dtype_value(s, n) ==
  IF n.st # "Done" THEN n ELSE dtype_switch(n.val, s, type_(s, n))

dtype(s, r) == dtype_value(s, declared_name(s, r))

(***************************************************************************)
(* Input buffers.  Each family is a bounded set of descriptions; Render    *)
(* gives the bytes of a description.                                       *)
(***************************************************************************)
SeqsUpTo(A, n) == UNION {[1..k -> A] : k \in 0..n}
SeqsFrom(A, lo, n) == UNION {[1..k -> A] : k \in lo..n}

MaxNameLen == 3
MaxHexLen == 4
MaxHexDigits == 3
MaxQuotedLen == 2
MaxItems == 2
MaxStmts == 2
MaxProps == 3

\* decimal text and value of a small integer
RECURSIVE DigitsOf(_)
DigitsOf(n) == IF n < 10 THEN <<n>> ELSE Append(DigitsOf(n \div 10), n % 10)

IntVal(n) == IF n < 0 THEN Num(TRUE, DigitsOf(0 - n)) ELSE Num(FALSE, DigitsOf(n))

MagText(d) == [k \in 1..Len(d) |-> d[k] + 48]
NumText(v) == IF v.neg THEN <<45>> \o MagText(v.mag) ELSE MagText(v.mag)

RECURSIVE Join(_, _)
Join(ts, sep) ==
  IF ts = <<>> THEN <<>>
  ELSE IF Len(ts) = 1 THEN ts[1]
  ELSE ts[1] \o sep \o Join(Tail(ts), sep)

\* /*c*/
BlockComment == <<47, 42, 99, 42, 47>>

\* raw buffers for the identifier scanner: letters, digit, underscore,
\* blank, punctuation and a non-ASCII byte
NameAlphabet == {97, 90, 95, 49, SPACE, 59, 195}
\* "___name___ foo\n"
NameExample == <<95, 95, 95, 110, 97, 109, 101, 95, 95, 95, SPACE, 102, 111, 111, LF>>
RawGens ==
  {[fam |-> "raw", bytes |-> b]
     : b \in SeqsUpTo(NameAlphabet, MaxNameLen) \cup {NameExample}}

\* text handed to from_hex: hex digits of both cases, blanks, a non-hex byte
HexAlphabet == {49, 97, 70, SPACE, 103}
\* "68656c6c6f" and a text with every kind of blank between nibbles
HexExamples ==
  {<<54, 56, 54, 53, 54, 99, 54, 99, 54, 102>>,
   <<49, TAB, 97, CR, LF, 70, SPACE, 49>>}
HexGens ==
  {[fam |-> "hex", bytes |-> b]
     : b \in SeqsUpTo(HexAlphabet, MaxHexLen) \cup HexExamples}

\* def : <literal> ;  with a hex literal, a quoted literal or an open quote
HexLitAlphabet == {54, 97, 70, SPACE}
\* 00ff7F
HexLitExample == <<48, 48, 102, 102, 55, 70>>
QuotedAlphabet == {97, 59, 128, 195, 169}
DefGens ==
  {[fam |-> "def", form |-> "hex", body |-> b, pre |-> w]
     : b \in SeqsUpTo(HexLitAlphabet, MaxHexDigits) \cup {HexLitExample},
       w \in {<<>>, <<SPACE>>}}
  \cup
  {[fam |-> "def", form |-> f, body |-> b, pre |-> w]
     : f \in {"quoted", "open"}, b \in SeqsUpTo(QuotedAlphabet, MaxQuotedLen),
       w \in {<<>>, <<SPACE>>}}

\* range : item (, item)* ;
RangeVals == {IntVal(0 - 1), IntVal(5)}
RangeItems ==
  {Bounded(a, b) : a \in RangeVals, b \in RangeVals}
  \cup {From(a) : a \in RangeVals}
  \cup {To(a) : a \in RangeVals}
  \cup {Single(a) : a \in RangeVals}
ExampleItems == <<Bounded(IntVal(0 - 1), IntVal(4)), Single(IntVal(5)), From(IntVal(66))>>
RangeGens ==
  {[fam |-> "range", items |-> it, pre |-> w]
     : it \in SeqsFrom(RangeItems, 1, MaxItems) \cup {ExampleItems},
       w \in {<<>>, <<SPACE>>}}

ItemText(it) ==
  IF it.item = "Bounded" THEN NumText(it.start) \o DOTDOT \o NumText(it.end)
  ELSE IF it.item = "From" THEN NumText(it.start) \o DOTDOT
  ELSE IF it.item = "To" THEN DOTDOT \o NumText(it.end)
  ELSE NumText(it.v)

\* the literals of the header family: the text, and the alternatives of
\* header_statement that accept the text followed by its terminator
Literals ==
  <<
    \* 1
    [text |-> <<49>>,
     accepts |-> {"Uint", "Int", "Float", "Date"}],
    \* 007
    [text |-> <<48, 48, 55>>,
     accepts |-> {"Uint", "Int", "Float", "Date"}],
    \* 18446744073709551615
    [text |-> <<49, 56, 52, 52, 54, 55, 52, 52, 48, 55, 51, 55, 48, 57, 53, 53, 49, 54, 49, 53>>,
     accepts |-> {"Uint", "Float"}],
    \* 18446744073709551616
    [text |-> <<49, 56, 52, 52, 54, 55, 52, 52, 48, 55, 51, 55, 48, 57, 53, 53, 49, 54, 49, 54>>,
     accepts |-> {"Float"}],
    \* 99999999999999999999
    [text |-> <<57, 57, 57, 57, 57, 57, 57, 57, 57, 57, 57, 57, 57, 57, 57, 57, 57, 57, 57, 57>>,
     accepts |-> {"Float"}],
    \* 9223372036854775808
    [text |-> <<57, 50, 50, 51, 51, 55, 50, 48, 51, 54, 56, 53, 52, 55, 55, 53, 56, 48, 56>>,
     accepts |-> {"Uint", "Float"}],
    \* -2
    [text |-> <<45, 50>>,
     accepts |-> {"Int", "Float", "Date"}],
    \* -9223372036854775808
    [text |-> <<45, 57, 50, 50, 51, 51, 55, 50, 48, 51, 54, 56, 53, 52, 55, 55, 53, 56, 48, 56>>,
     accepts |-> {"Int", "Float", "Date"}],
    \* -9223372036854775809
    [text |-> <<45, 57, 50, 50, 51, 51, 55, 50, 48, 51, 54, 56, 53, 52, 55, 55, 53, 56, 48, 57>>,
     accepts |-> {"Float"}],
    \* --1
    [text |-> <<45, 45, 49>>,
     accepts |-> {}],
    \* 1.5
    [text |-> <<49, 46, 53>>,
     accepts |-> {"Float"}],
    \* -2e3
    [text |-> <<45, 50, 101, 51>>,
     accepts |-> {"Float"}],
    \* +1
    [text |-> <<43, 49>>,
     accepts |-> {"Float"}],
    \* 1e
    [text |-> <<49, 101>>,
     accepts |-> {}],
    \* .
    [text |-> <<46>>,
     accepts |-> {}],
    \* 20170101T00:00:00
    [text |-> <<50, 48, 49, 55, 48, 49, 48, 49, 84, 48, 48, 58, 48, 48, 58, 48, 48>>,
     accepts |-> {"Date"}],
    \* 20170101T00:00:00.5
    [text |-> <<50, 48, 49, 55, 48, 49, 48, 49, 84, 48, 48, 58, 48, 48, 58, 48, 48, 46, 53>>,
     accepts |-> {"Date"}],
    \* 20171301T00:00:00
    [text |-> <<50, 48, 49, 55, 49, 51, 48, 49, 84, 48, 48, 58, 48, 48, 58, 48, 48>>,
     accepts |-> {}],
    \* 20170229T00:00:00
    [text |-> <<50, 48, 49, 55, 48, 50, 50, 57, 84, 48, 48, 58, 48, 48, 58, 48, 48>>,
     accepts |-> {}],
    \* "x"
    [text |-> <<34, 120, 34>>,
     accepts |-> {"String", "Binary"}],
    \* ""
    [text |-> <<34, 34>>,
     accepts |-> {"String", "Binary"}],
    \* "\xc3\xa9"
    [text |-> <<34, 195, 169, 34>>,
     accepts |-> {"String", "Binary"}],
    \* "\xc3"
    [text |-> <<34, 195, 34>>,
     accepts |-> {"Binary"}],
    \* "x
    [text |-> <<34, 120>>,
     accepts |-> {}],
    \* 0x6162
    [text |-> <<48, 120, 54, 49, 54, 50>>,
     accepts |-> {"String", "Binary"}],
    \* 0xff
    [text |-> <<48, 120, 102, 102>>,
     accepts |-> {"Binary"}],
    \* 0x6
    [text |-> <<48, 120, 54>>,
     accepts |-> {}],
    \* 0x
    [text |-> <<48, 120>>,
     accepts |-> {"String", "Binary"}],
    \* foo
    [text |-> <<102, 111, 111>>,
     accepts |-> {"Named"}],
    \* _a1
    [text |-> <<95, 97, 49>>,
     accepts |-> {"Named"}],
    \* e
    [text |-> <<101>>,
     accepts |-> {"Named"}],
    \* (nothing)
    [text |-> <<>>,
     accepts |-> {}]
  >>

\* Foo, _x
StatementNames == {<<70, 111, 111>>, <<95, 120>>}

\* name := literal ;  with the blanks before `:=`, after it and before `;`
HeaderGens ==
  {[fam |-> "header", nm |-> n, lit |-> l, s1 |-> a, s2 |-> b, s3 |-> c]
     : n \in StatementNames, l \in 1..Len(Literals),
       a \in {<<>>, <<SPACE>>}, b \in {<<>>, <<SPACE>>},
       c \in {<<>>, <<SPACE>>, BlockComment}}

\* the statements of the hblock family, with the statement each one is
Statements ==
  <<
    \* Foo := 1;
    [text |-> <<70, 111, 111, 32, 58, 61, 32, 49, 59>>,
     is |-> Stmt("Uint", <<70, 111, 111>>, IntVal(1))],
    \* Bar := "x";
    [text |-> <<66, 97, 114, 32, 58, 61, 32, 34, 120, 34, 59>>,
     is |-> Stmt("String", <<66, 97, 114>>, <<120>>)],
    \* B := -2;
    [text |-> <<66, 32, 58, 61, 32, 45, 50, 59>>,
     is |-> Stmt("Int", <<66>>, IntVal(0 - 2))],
    \* N := foo;
    [text |-> <<78, 32, 58, 61, 32, 102, 111, 111, 59>>,
     is |-> Stmt("Named", <<78>>, <<102, 111, 111>>)]
  >>

\* declare header {
BlockOpen == <<100, 101, 99, 108, 97, 114, 101, 32, 104, 101, 97, 100, 101, 114, 32, 123>>

\* declare header { statement* [}]  with what stands between two statements
\* and what stands after the last one
HblockGens ==
  {[fam |-> "hblock", stmts |-> ss, open |-> o, between |-> b, close |-> c]
     : ss \in SeqsUpTo(1..Len(Statements), MaxStmts),
       o \in {<<>>, <<SPACE>>},
       b \in {<<>>, <<SPACE>>, <<LF>>, BlockComment},
       c \in {<<125>>, <<SPACE, 125>>, <<>>, <<SPACE>>}}

\* the type tags of the dtype family
TypeTags ==
  <<TypeKeywords.int, TypeKeywords.uint, TypeKeywords.float, TypeKeywords.string,
    \* integer, foo
    <<105, 110, 116, 101, 103, 101, 114>>, <<102, 111, 111>>,
    TypeKeywords.date, TypeKeywords.binary, TypeKeywords.container,
    \* uint8
    TypeKeywords.uint \o <<56>>>>

\* the properties of the dtype family, per type: the text, the slot the
\* property fills and the value it carries
IntProperties ==
  <<
    \* def: 1;
    [text |-> <<100, 101, 102, 58, 32, 49, 59>>, slot |-> "default", v |-> IntVal(1)],
    \* def: -3;
    [text |-> <<100, 101, 102, 58, 32, 45, 51, 59>>, slot |-> "default", v |-> IntVal(0 - 3)],
    \* range: 1..10;
    [text |-> <<114, 97, 110, 103, 101, 58, 32, 49, 46, 46, 49, 48, 59>>, slot |-> "range",
     v |-> <<Bounded(IntVal(1), IntVal(10))>>],
    \* range: ..2,4;
    [text |-> <<114, 97, 110, 103, 101, 58, 32, 46, 46, 50, 44, 52, 59>>, slot |-> "range",
     v |-> <<To(IntVal(2)), Single(IntVal(4))>>]
  >>

UintProperties ==
  <<
    \* def: 1;
    [text |-> <<100, 101, 102, 58, 32, 49, 59>>, slot |-> "default", v |-> IntVal(1)],
    \* def: 2;
    [text |-> <<100, 101, 102, 58, 32, 50, 59>>, slot |-> "default", v |-> IntVal(2)],
    \* range: 1..10;
    [text |-> <<114, 97, 110, 103, 101, 58, 32, 49, 46, 46, 49, 48, 59>>, slot |-> "range",
     v |-> <<Bounded(IntVal(1), IntVal(10))>>],
    \* range: 5;
    [text |-> <<114, 97, 110, 103, 101, 58, 32, 53, 59>>, slot |-> "range",
     v |-> <<Single(IntVal(5))>>]
  >>

PropertiesOf(t) == IF t = 1 THEN IntProperties ELSE UintProperties

\* what follows a declaration: nothing, a line end, `;`, ` ;x`, `x`
Endings == {<<>>, <<LF>>, <<59>>, <<SPACE, 59, 120>>, <<120>>}

\* Foo := tag [ '[' property* ']' ] ending
DtypeGens ==
  {[fam |-> "dtype", tag |-> t, form |-> "list", props |-> ps, gap |-> g,
    end |-> e]
     : t \in {1, 2}, ps \in SeqsUpTo(1..4, MaxProps),
       g \in {<<>>, <<SPACE>>}, e \in Endings}
  \cup
  {[fam |-> "dtype", tag |-> t, form |-> "none", props |-> <<>>, gap |-> <<>>,
    end |-> e]
     : t \in 1..Len(TypeTags), e \in Endings}

\* the declaration up to and including its `]`
DtypeHead(g) ==
  <<70, 111, 111, SPACE>> \o ASSIGN \o <<SPACE>> \o TypeTags[g.tag]
    \o (IF g.form = "list"
        THEN <<SPACE, 91>> \o g.gap
               \o Join([k \in 1..Len(g.props) |->
                          PropertiesOf(g.tag)[g.props[k]].text], g.gap)
               \o g.gap \o <<93>>
        ELSE <<>>)

\* what may follow the type tag of a declaration: the text, the tags (1 int,
\* 2 uint) for which it is a well-formed bracketed property list, and whether
\* it opens a bracket at all
DeclBodies ==
  <<
    \* ``
    [text |-> <<>>,
     wellformed |-> {}, bracket |-> FALSE],
    \* ` [ def: 1; ]`
    [text |-> <<32, 91, 32, 100, 101, 102, 58, 32, 49, 59, 32, 93>>,
     wellformed |-> {1, 2}, bracket |-> TRUE],
    \* ` [ range: 1..10; def: 1; ]`
    [text |-> <<32, 91, 32, 114, 97, 110, 103, 101, 58, 32, 49, 46, 46, 49, 48, 59, 32, 100, 101, 102, 58, 32, 49, 59, 32, 93>>,
     wellformed |-> {1, 2}, bracket |-> TRUE],
    \* `[def: 1;]`
    [text |-> <<91, 100, 101, 102, 58, 32, 49, 59, 93>>,
     wellformed |-> {1, 2}, bracket |-> TRUE],
    \* ` [ def: -3; ]`
    [text |-> <<32, 91, 32, 100, 101, 102, 58, 32, 45, 51, 59, 32, 93>>,
     wellformed |-> {1}, bracket |-> TRUE],
    \* ` [ ]`
    [text |-> <<32, 91, 32, 93>>,
     wellformed |-> {}, bracket |-> TRUE],
    \* ` [ def: 1; `
    [text |-> <<32, 91, 32, 100, 101, 102, 58, 32, 49, 59, 32>>,
     wellformed |-> {}, bracket |-> TRUE],
    \* ` [ def: ; ]`
    [text |-> <<32, 91, 32, 100, 101, 102, 58, 32, 59, 32, 93>>,
     wellformed |-> {}, bracket |-> TRUE],
    \* ` [ def: 1; foo: 2; ]`
    [text |-> <<32, 91, 32, 100, 101, 102, 58, 32, 49, 59, 32, 102, 111, 111, 58, 32, 50, 59, 32, 93>>,
     wellformed |-> {}, bracket |-> TRUE]
  >>

\* Foo := tag body ending, the ending never continuing the tag's identifier
DeclGens ==
  {[fam |-> "decl", tag |-> t, body |-> b, end |-> e]
     : t \in 1..Len(TypeTags), b \in 1..Len(DeclBodies),
       e \in (Endings \ {<<120>>}) \cup {<<59, LF>>}}

\* the declaration up to and including its type tag
DeclTag(g) == <<70, 111, 111, SPACE>> \o ASSIGN \o <<SPACE>> \o TypeTags[g.tag]

\* lone range values: the text, the ordered domains whose value parser
\* accepts it, and its number where it is one
LoneValues ==
  <<
    \* 5
    [text |-> <<53>>,
     kinds |-> {"int", "uint", "date"}, n |-> IntVal(5)],
    \* 0
    [text |-> <<48>>,
     kinds |-> {"int", "uint", "date"}, n |-> IntVal(0)],
    \* -1
    [text |-> <<45, 49>>,
     kinds |-> {"int", "date"}, n |-> IntVal(0 - 1)],
    \* 18446744073709551615
    [text |-> <<49, 56, 52, 52, 54, 55, 52, 52, 48, 55, 51, 55, 48, 57, 53, 53, 49, 54, 49, 53>>,
     kinds |-> {"uint"}, n |-> Num(FALSE, U64Max)],
    \* 20170101T00:00:00
    [text |-> <<50, 48, 49, 55, 48, 49, 48, 49, 84, 48, 48, 58, 48, 48, 58, 48, 48>>,
     kinds |-> {"date"}, n |-> NoVal],
    \* 19950418T04:20:00.42
    [text |-> <<49, 57, 57, 53, 48, 52, 49, 56, 84, 48, 52, 58, 50, 48, 58, 48, 48, 46, 52, 50>>,
     kinds |-> {"date"}, n |-> NoVal]
  >>

\* range: v ;
LoneGens ==
  {[fam |-> "lone", v |-> v, pre |-> w]
     : v \in 1..Len(LoneValues), w \in {<<>>, <<SPACE>>, <<SPACE, SPACE>>, <<TAB>>}}

\* the values of the unsigned ranges read as string and binary ranges: around
\* the last byte and the last code point
DomainVals == {5, 255, 256, 1114111, 1114112}
DomainItems ==
  {Single(IntVal(n)) : n \in DomainVals}
  \cup {From(IntVal(5))}
  \cup {Bounded(IntVal(5), IntVal(n)) : n \in {255, 256}}
  \cup {Bounded(IntVal(256), IntVal(5))}
DomainGens ==
  {[fam |-> "range", items |-> it, pre |-> w]
     : it \in SeqsFrom(DomainItems, 1, MaxItems), w \in {<<>>, <<SPACE>>}}

\* compact dates of the year 2017 with fields in and out of range, alone
\* or as the value of a def property
TwoDigits(n) == <<48 + (n \div 10), 48 + (n % 10)>>
CompactGens ==
  {[fam |-> "compact", month |-> mo, day |-> d, hour |-> h, minute |-> mi,
    second |-> sec, fraction |-> f, form |-> w]
     : mo \in {0, 1, 2, 12, 13}, d \in {0, 1, 29, 31, 32}, h \in {0, 23, 24},
       mi \in {59, 60}, sec \in {59, 60}, f \in {<<>>, <<46, 53>>},
       w \in {"value", "def"}}

\* 2017MMDDThh:mm:ss[.fraction]
CompactText(g) ==
  <<50, 48, 49, 55>> \o TwoDigits(g.month) \o TwoDigits(g.day) \o <<84>>
    \o TwoDigits(g.hour) \o <<58>> \o TwoDigits(g.minute) \o <<58>>
    \o TwoDigits(g.second) \o g.fraction

\* digit runs around the limits of the 64-bit integers: the text, the
\* magnitude it denotes, and whether that magnitude is an i64, whether its
\* negation is one, and whether it is a u64
DigitRuns ==
  <<
    \* the empty run
    [text |-> <<>>, mag |-> <<>>, i64 |-> FALSE, negi64 |-> FALSE, u64 |-> FALSE],
    \* 0
    [text |-> <<48>>,
     mag |-> <<0>>,
     i64 |-> TRUE, negi64 |-> TRUE, u64 |-> TRUE],
    \* 007
    [text |-> <<48, 48, 55>>,
     mag |-> <<7>>,
     i64 |-> TRUE, negi64 |-> TRUE, u64 |-> TRUE],
    \* 1234
    [text |-> <<49, 50, 51, 52>>,
     mag |-> <<1, 2, 3, 4>>,
     i64 |-> TRUE, negi64 |-> TRUE, u64 |-> TRUE],
    \* 9223372036854775807
    [text |-> <<57, 50, 50, 51, 51, 55, 50, 48, 51, 54, 56, 53, 52, 55, 55, 53, 56, 48, 55>>,
     mag |-> <<9, 2, 2, 3, 3, 7, 2, 0, 3, 6, 8, 5, 4, 7, 7, 5, 8, 0, 7>>,
     i64 |-> TRUE, negi64 |-> TRUE, u64 |-> TRUE],
    \* 9223372036854775808
    [text |-> <<57, 50, 50, 51, 51, 55, 50, 48, 51, 54, 56, 53, 52, 55, 55, 53, 56, 48, 56>>,
     mag |-> <<9, 2, 2, 3, 3, 7, 2, 0, 3, 6, 8, 5, 4, 7, 7, 5, 8, 0, 8>>,
     i64 |-> FALSE, negi64 |-> TRUE, u64 |-> TRUE],
    \* 0009223372036854775808
    [text |-> <<48, 48, 48, 57, 50, 50, 51, 51, 55, 50, 48, 51, 54, 56, 53, 52, 55, 55, 53, 56, 48, 56>>,
     mag |-> <<9, 2, 2, 3, 3, 7, 2, 0, 3, 6, 8, 5, 4, 7, 7, 5, 8, 0, 8>>,
     i64 |-> FALSE, negi64 |-> TRUE, u64 |-> TRUE],
    \* 9223372036854775809
    [text |-> <<57, 50, 50, 51, 51, 55, 50, 48, 51, 54, 56, 53, 52, 55, 55, 53, 56, 48, 57>>,
     mag |-> <<9, 2, 2, 3, 3, 7, 2, 0, 3, 6, 8, 5, 4, 7, 7, 5, 8, 0, 9>>,
     i64 |-> FALSE, negi64 |-> FALSE, u64 |-> TRUE],
    \* 18446744073709551615
    [text |-> <<49, 56, 52, 52, 54, 55, 52, 52, 48, 55, 51, 55, 48, 57, 53, 53, 49, 54, 49, 53>>,
     mag |-> <<1, 8, 4, 4, 6, 7, 4, 4, 0, 7, 3, 7, 0, 9, 5, 5, 1, 6, 1, 5>>,
     i64 |-> FALSE, negi64 |-> FALSE, u64 |-> TRUE],
    \* 18446744073709551616
    [text |-> <<49, 56, 52, 52, 54, 55, 52, 52, 48, 55, 51, 55, 48, 57, 53, 53, 49, 54, 49, 54>>,
     mag |-> <<1, 8, 4, 4, 6, 7, 4, 4, 0, 7, 3, 7, 0, 9, 5, 5, 1, 6, 1, 6>>,
     i64 |-> FALSE, negi64 |-> FALSE, u64 |-> FALSE],
    \* 99999999999999999999
    [text |-> <<57, 57, 57, 57, 57, 57, 57, 57, 57, 57, 57, 57, 57, 57, 57, 57, 57, 57, 57, 57>>,
     mag |-> <<9, 9, 9, 9, 9, 9, 9, 9, 9, 9, 9, 9, 9, 9, 9, 9, 9, 9, 9, 9>>,
     i64 |-> FALSE, negi64 |-> FALSE, u64 |-> FALSE]
  >>

\* [-]digits followed by something that ends the run, or def: digits;
RunGens ==
  {[fam |-> "run", run |-> k, neg |-> n, form |-> "value", end |-> e]
     : k \in 1..Len(DigitRuns), n \in BOOLEAN,
       e \in {<<>>, <<59>>, <<LF>>, <<SPACE, 120>>, <<46, 46, 53>>}}
  \cup
  {[fam |-> "run", run |-> k, neg |-> n, form |-> "def", end |-> <<59, LF>>]
     : k \in 1..Len(DigitRuns), n \in BOOLEAN}

RunText(g) == (IF g.neg THEN <<45>> ELSE <<>>) \o DigitRuns[g.run].text

\* identifiers alone: a type tag followed by something that ends the
\* identifier
TypeGens ==
  {[fam |-> "type", tag |-> t, end |-> e]
     : t \in 1..Len(TypeTags),
       e \in (Endings \ {<<120>>}) \cup {<<SPACE>>, <<SPACE, 91>>, <<59, LF>>}}

(***************************************************************************)
(* State machine: a buffer is chosen, then one parser is applied to it.    *)
(***************************************************************************)
Render(g) ==
  IF g.fam \in {"raw", "hex"} THEN g.bytes
  ELSE IF g.fam = "def" THEN
    KW_def \o <<58>> \o g.pre
      \o (IF g.form = "hex" THEN <<48, 120>> \o g.body
          ELSE IF g.form = "quoted" THEN <<QUOTE>> \o g.body \o <<QUOTE>>
          ELSE <<QUOTE>> \o g.body)
      \o g.pre \o <<59, LF>>
  ELSE IF g.fam = "range" THEN
    KW_range \o <<58, SPACE>>
      \o Join([k \in 1..Len(g.items) |-> ItemText(g.items[k])],
              g.pre \o <<44>> \o g.pre)
      \o g.pre \o <<59, LF>>
  ELSE IF g.fam = "header" THEN
    g.nm \o g.s1 \o ASSIGN \o g.s2 \o Literals[g.lit].text \o g.s3 \o <<59, LF>>
  ELSE IF g.fam = "hblock" THEN
    BlockOpen \o g.open
      \o Join([k \in 1..Len(g.stmts) |-> Statements[g.stmts[k]].text], g.between)
      \o g.close
  ELSE IF g.fam = "compact" THEN
    (IF g.form = "def" THEN KW_def \o <<58, SPACE>> ELSE <<>>)
      \o CompactText(g) \o <<59, LF>>
  ELSE IF g.fam = "run" THEN
    (IF g.form = "def" THEN KW_def \o <<58, SPACE>> ELSE <<>>)
      \o RunText(g) \o g.end
  ELSE IF g.fam = "type" THEN TypeTags[g.tag] \o g.end
  ELSE IF g.fam = "lone" THEN
    KW_range \o <<58>> \o g.pre \o LoneValues[g.v].text \o g.pre \o <<59, LF>>
  ELSE IF g.fam = "decl" THEN DeclTag(g) \o DeclBodies[g.body].text \o g.end
  ELSE DtypeHead(g) \o g.end

InitWith(G) ==
  /\ gen \in G
  /\ input = Render(gen)
  /\ op = "none"
  /\ res = NoVal

Apply(o, r) ==
  /\ op = "none"
  /\ op' = o
  /\ res' = r
  /\ UNCHANGED <<input, gen>>

Name == Apply("name", name(input, Start(1)))
\* from_hex takes a &str
FromHex == from_utf8_ok(input) /\ Apply("from_hex", from_hex(input))
TypeTag == Apply("type_", type_(input, Start(1)))
IntV == Apply("int_v", int_v(input, Start(1)))
FloatV == Apply("float_v", float_v(input, Start(1)))
DateV == Apply("date_v", date_v(input, Start(1)))
IntDef == Apply("int_def", int_def(input, Start(1)))
UintDef == Apply("uint_def", uint_def(input, Start(1)))
FloatDef == Apply("float_def", float_def(input, Start(1)))
DateDef == Apply("date_def", date_def(input, Start(1)))
StringDef == Apply("string_def", string_def(input, Start(1)))
BinaryDef == Apply("binary_def", binary_def(input, Start(1)))
IntRange == Apply("int_range", int_range(input, Start(1)))
UintRange == Apply("uint_range", uint_range(input, Start(1)))
DateRange == Apply("date_range", date_range(input, Start(1)))
StringRange == Apply("string_range", string_range(input, Start(1)))
BinaryRange == Apply("binary_range", binary_range(input, Start(1)))
HeaderStatement == Apply("header_statement", header_statement(input, Start(1)))
Hblock == Apply("hblock", hblock(input, Start(1)))
Dtype == Apply("dtype", dtype(input, Start(1)))

Next ==
  \/ Name
  \/ FromHex
  \/ TypeTag
  \/ IntV
  \/ FloatV
  \/ DateV
  \/ IntDef
  \/ UintDef
  \/ FloatDef
  \/ DateDef
  \/ StringDef
  \/ BinaryDef
  \/ IntRange
  \/ UintRange
  \/ DateRange
  \/ StringRange
  \/ BinaryRange
  \/ HeaderStatement
  \/ Hblock
  \/ Dtype

InitRaw == InitWith(RawGens)
InitHex == InitWith(HexGens)
InitDef == InitWith(DefGens)
InitBinary == InitWith(HexGens \cup DefGens)
InitRange == InitWith(RangeGens)
InitHeader == InitWith(HeaderGens)
InitHblock == InitWith(HblockGens)
InitDtype == InitWith(DtypeGens)
InitDecl == InitWith(DeclGens)
InitLone == InitWith(LoneGens)
InitDomain == InitWith(DomainGens)
InitCompact == InitWith(CompactGens)
InitRun == InitWith(RunGens)
InitType == InitWith(TypeGens)

SpecRaw == InitRaw /\ [][Next]_vars
SpecHex == InitHex /\ [][Next]_vars
SpecDef == InitDef /\ [][Next]_vars
SpecBinary == InitBinary /\ [][Next]_vars
SpecRange == InitRange /\ [][Next]_vars
SpecHeader == InitHeader /\ [][Next]_vars
SpecHblock == InitHblock /\ [][Next]_vars
SpecDtype == InitDtype /\ [][Next]_vars
SpecDecl == InitDecl /\ [][Next]_vars
SpecLone == InitLone /\ [][Next]_vars
SpecDomain == InitDomain /\ [][Next]_vars
SpecCompact == InitCompact /\ [][Next]_vars
SpecRun == InitRun /\ [][Next]_vars
SpecType == InitType /\ [][Next]_vars

\* the remainder after a successful parse
Remainder == Rest(input, res.pos)

(***************************************************************************)
(* Properties                                                              *)
(***************************************************************************)
IsAsciiLetter(b) == b \in 65..90 \/ b \in 97..122
IsIdentByte(b) == IsAsciiLetter(b) \/ b \in 48..57 \/ b = 95

HexValue(b) ==
  IF b \in 48..57 THEN b - 48 ELSE IF b \in 97..102 THEN b - 87 ELSE b - 55
IsHexChar(b) == b \in 48..57 \/ b \in 97..102 \/ b \in 65..70
IsBlank(b) == b \in {32, 13, 10, 9}
HexDigitsOf(t) == SelectSeq(t, IsHexChar)
Pairwise(d) ==
  [k \in 1..(Len(d) \div 2) |-> 16 * HexValue(d[2 * k - 1]) + HexValue(d[2 * k])]

SetMax(S) == CHOOSE m \in S : \A k \in S : k <= m

\* the property indices of a declaration that fill a slot
SlotIndices(g, slot) ==
  {k \in 1..Len(g.props) : PropertiesOf(g.tag)[g.props[k]].slot = slot}

\* the value of the last property of a slot, None without one
LastOf(g, slot) ==
  IF SlotIndices(g, slot) = {} THEN None
  ELSE Some(PropertiesOf(g.tag)[g.props[SetMax(SlotIndices(g, slot))]].v)

BracketConsumed == res.st = "Done" /\ res.pos > Len(DtypeHead(gen))

C2_RangeItemsInOrder ==
  (op = "int_range" /\ gen.fam = "range") =>
    /\ res.st = "Done"
    /\ res.val = Prop("IntRange", gen.items)
    /\ Remainder = <<LF>>

\* `-1..4,5,66..` is [Bounded{-1,4}, Single(5), From{66}]
C2_Witness ==
  /\ op = "int_range"
  /\ gen.fam = "range"
  /\ gen.items = ExampleItems
  /\ res.st = "Done"
  /\ res.val.v = <<Bounded(IntVal(0 - 1), IntVal(4)), Single(IntVal(5)),
                   From(IntVal(66))>>

AlternativeOrder == <<"Uint", "Int", "Float", "Date", "String", "Binary", "Named">>

\* the earliest alternative of a non-empty set of accepting alternatives
Earliest(m) ==
  AlternativeOrder[CHOOSE k \in 1..Len(AlternativeOrder) :
                     /\ AlternativeOrder[k] \in m
                     /\ \A j \in 1..(k - 1) : AlternativeOrder[j] \notin m]

\* C3: header_statement succeeds iff some alternative accepts the literal
\* with its terminator, and the statement is then of the earliest accepting
\* alternative in the order unsigned, signed, float, date, string, binary,
\* identifier: Int only if the unsigned alternative does not accept, Float
\* only if neither integer alternative accepts, Binary only if the decoded
\* bytes are not valid UTF-8.
C3_EarliestAlternative ==
  (op = "header_statement" /\ gen.fam = "header") =>
    /\ res.st = "Done" <=> Literals[gen.lit].accepts # {}
    /\ res.st = "Done" =>
         /\ res.val.kind = Earliest(Literals[gen.lit].accepts)
         /\ res.val.name = gen.nm
         /\ Remainder = <<LF>>
         /\ res.val.kind = "Int" => "Uint" \notin Literals[gen.lit].accepts
         /\ res.val.kind = "Float" =>
              Literals[gen.lit].accepts \cap {"Uint", "Int"} = {}
         /\ res.val.kind = "String" => from_utf8_ok(res.val.value)
         /\ res.val.kind = "Binary" => ~from_utf8_ok(res.val.value)

\* -2 is accepted as a signed integer, a float and a date offset, and is Int
C3_Witness ==
  /\ op = "header_statement"
  /\ gen.fam = "header"
  /\ Literals[gen.lit].accepts = {"Int", "Float", "Date"}
  /\ res.st = "Done"
  /\ res.val.kind = "Int"
  /\ res.val.value = IntVal(0 - 2)

IsDigitRun(t) == t # <<>> /\ \A k \in 1..Len(t) : t[k] \in 48..57

\* C4: a header statement whose literal is a bare run of decimal digits is
\* Uint or fails; it is never Int, Float, Date or any other kind.
C4_BareDigitsAreUint ==
  (op = "header_statement" /\ gen.fam = "header"
     /\ IsDigitRun(Literals[gen.lit].text)) =>
    (res.st # "Done" \/ res.val.kind = "Uint")

\* C5: hblock fails on a block without statements and otherwise returns the
\* parse of every statement of the block, in source order.
C5_HblockAllStatements ==
  (op = "hblock" /\ gen.fam = "hblock") =>
    IF gen.stmts = <<>> THEN res.st # "Done"
    ELSE /\ res.st = "Done"
         /\ res.val = [k \in 1..Len(gen.stmts) |-> Statements[gen.stmts[k]].is]

\* C6: hblock succeeds only if the closing brace follows the statements, and
\* the brace is then consumed.
C6_ClosingBraceConsumed ==
  (op = "hblock" /\ gen.fam = "hblock" /\ res.st = "Done") =>
    \E k \in 1..Len(gen.close) :
      /\ gen.close[k] = 125
      /\ res.pos > Len(input) - Len(gen.close) + k

\* C7: name does not succeed on an empty input or on a first byte that is
\* not an ASCII letter or underscore; otherwise it returns the longest prefix
\* of alphanumeric/underscore bytes and the remainder is the rest of the
\* input, starting at the first non-identifier byte.
C7_NameLongestPrefix ==
  op = "name" =>
    IF input = <<>> \/ ~(IsAsciiLetter(input[1]) \/ input[1] = 95)
    THEN res.st # "Done"
    ELSE /\ res.st = "Done"
         /\ res.val \o Remainder = input
         /\ \A k \in 1..Len(res.val) : IsIdentByte(res.val[k])
         /\ Remainder # <<>> => ~IsIdentByte(Remainder[1])

\* the identifier `___name___` is returned with ` foo\n` left over
C7_Witness ==
  /\ op = "name"
  /\ input = NameExample
  /\ res.st = "Done"
  /\ res.val = SubSeq(NameExample, 1, 10)
  /\ Remainder = <<SPACE, 102, 111, 111, LF>>

\* C8: from_hex returns bytes iff every character is a hex digit or a blank
\* and the number of hex digits is even; the bytes are then the hex digits
\* taken pairwise in order, high nibble first, blanks ignored wherever they
\* stand.
C8_FromHexDecodes ==
  op = "from_hex" =>
    /\ res.some <=>
         /\ \A k \in 1..Len(input) : IsHexChar(input[k]) \/ IsBlank(input[k])
         /\ Len(HexDigitsOf(input)) % 2 = 0
    /\ res.some => res.v = Pairwise(HexDigitsOf(input))

\* two bytes decoded with a blank between the two nibbles of a byte
C8_Witness ==
  /\ op = "from_hex"
  /\ res.some
  /\ Len(res.v) = 2
  /\ \E k \in 2..(Len(input) - 1) :
       /\ IsBlank(input[k])
       /\ IsHexChar(input[k - 1])
       /\ Len(HexDigitsOf(SubSeq(input, 1, k - 1))) % 2 = 1

\* lower-case hex text of a byte sequence, two digits per byte
HexDigit(n) == IF n < 10 THEN 48 + n ELSE 87 + n
Encode(b) ==
  [k \in 1..(2 * Len(b)) |->
     IF k % 2 = 1 THEN HexDigit(b[(k + 1) \div 2] \div 16)
     ELSE HexDigit(b[k \div 2] % 16)]
Lower(t) == [k \in 1..Len(t) |-> IF t[k] \in 65..70 THEN t[k] + 32 ELSE t[k]]

\* C9: the bytes decoded from a hex literal, encoded as hex again, are the
\* hex digits of the literal (letter case aside): same digits, same order,
\* same count, through binary_def and through from_hex with blanks between
\* the digits.
C9_HexRoundTrip ==
  /\ (op = "binary_def" /\ gen.fam = "def" /\ gen.form = "hex"
        /\ res.st = "Done") =>
       Encode(res.val.v) = Lower(HexDigitsOf(gen.body))
  /\ (op = "from_hex" /\ res.some) =>
       Encode(res.v) = Lower(HexDigitsOf(input))

\* `def: 0x00ff7F;` decodes to 00 ff 7f
C9_Witness ==
  /\ op = "binary_def"
  /\ gen.fam = "def"
  /\ gen.form = "hex"
  /\ gen.body = HexLitExample
  /\ res.st = "Done"
  /\ res.val.v = <<0, 255, 127>>
  /\ Encode(res.val.v) = Lower(HexLitExample)

\* a quoted literal is well formed; a hex literal is if it is an even number
\* of hex digits (the blanks after them belong to the terminator)
LiteralOk(g) ==
  \/ g.form = "quoted"
  \/ /\ g.form = "hex"
     /\ \E n \in 0..Len(g.body) :
          /\ n % 2 = 0
          /\ \A k \in 1..n : IsHexChar(g.body[k])
          /\ \A k \in (n + 1)..Len(g.body) : IsBlank(g.body[k])

\* the bytes a well-formed literal stands for
Decoded(g) == IF g.form = "hex" THEN Pairwise(HexDigitsOf(g.body)) ELSE g.body

\* C10: on the same `def : <literal> ;`, string_def succeeds iff the literal
\* is well formed and its bytes are valid UTF-8, binary_def succeeds iff the
\* literal is well formed, both return the decoded bytes unchanged, and on
\* an unterminated quoted literal both fail without a value.
C10_StringNeedsUtf8 ==
  gen.fam = "def" =>
    /\ op = "string_def" =>
         /\ res.st = "Done" <=> (LiteralOk(gen) /\ from_utf8_ok(Decoded(gen)))
         /\ res.st = "Done" => res.val = Prop("StringDefault", Decoded(gen))
    /\ op = "binary_def" =>
         /\ res.st = "Done" <=> LiteralOk(gen)
         /\ res.st = "Done" => res.val = Prop("BinaryDefault", Decoded(gen))
    /\ (op \in {"string_def", "binary_def"} /\ gen.form = "open") =>
         (res.st # "Done" /\ res.val = NoVal)

\* a quoted literal that is not UTF-8 is refused by string_def
C10_Witness ==
  /\ op = "string_def"
  /\ gen.fam = "def"
  /\ gen.form = "quoted"
  /\ gen.body = <<195>>
  /\ res.st = "Error"

\* C11: for every type tag other than int and uint (float, string, date,
\* binary, container or a user-type name) dtype reads no bracketed properties
\* and yields an Int-typed record with the declared name, default None and
\* range None, whatever was declared and whatever follows the tag.
C11_OtherTagsYieldEmptyInt ==
  (op = "dtype" /\ gen.fam = "decl" /\ gen.tag \notin {1, 2}) =>
    /\ res.st = "Done"
    /\ res.val = NewType("Int", <<70, 111, 111>>)
    /\ res.pos <= Len(DeclTag(gen)) + 1

\* where the value of a lone-value range starts
LoneStart(g) == Len(KW_range) + 1 + Len(g.pre) + 1

\* C12: in each of the three ordered domains a lone value with no `..` is
\* accepted as Single(v): int_range, uint_range and date_range each succeed
\* on `range: v;` with the one-item list [Single(v)].
C12_LoneValueIsSingle ==
  gen.fam = "lone" =>
    /\ (op = "int_range" /\ "int" \in LoneValues[gen.v].kinds) =>
          /\ res.st = "Done"
          /\ res.val = Prop("IntRange", <<Single(LoneValues[gen.v].n)>>)
    /\ (op = "uint_range" /\ "uint" \in LoneValues[gen.v].kinds) =>
          /\ res.st = "Done"
          /\ res.val = Prop("UintRange", <<Single(LoneValues[gen.v].n)>>)
    /\ (op = "date_range" /\ "date" \in LoneValues[gen.v].kinds) =>
          /\ res.st = "Done"
          /\ res.val =
               Prop("DateRange",
                    <<Single(date_v(input, Start(LoneStart(gen))).val)>>)

\* every value of every item is one of the family's values up to max
InDomain(items, max) ==
  \A k \in 1..Len(items) : \A f \in DOMAIN items[k] \ {"item"} :
    \E n \in DomainVals : n <= max /\ items[k][f] = IntVal(n)

\* C13: string_range and binary_range read the uint range grammar and then
\* reinterpret every item into their domain (code point <= 0x10FFFF, byte
\* <= 0xFF): when any value of any item is out of the domain the whole parse
\* fails, and when all are in it the items come back in order with the same
\* variants and values.
C13_RangeReinterpreted ==
  /\ (op = "string_range" /\ gen.fam = "range") =>
        IF InDomain(gen.items, 1114111)
        THEN res.st = "Done" /\ res.val = gen.items /\ Remainder = <<LF>>
        ELSE res.st = "Error"
  /\ (op = "binary_range" /\ gen.fam = "range") =>
        IF InDomain(gen.items, 255)
        THEN res.st = "Done" /\ res.val = gen.items /\ Remainder = <<LF>>
        ELSE res.st = "Error"

\* `range: 5,5..256;` is a string range and no binary range
C13_Witness ==
  /\ op = "binary_range"
  /\ gen.items = <<Single(IntVal(5)), Bounded(IntVal(5), IntVal(256))>>
  /\ res.st = "Error"
  /\ string_range(input, Start(1)).st = "Done"

\* the fields of a compact date of the family are a date and a time of 2017
InRange(g) ==
  /\ g.month \in 1..12
  /\ g.day >= 1
  /\ g.day <= (IF g.month = 2 THEN 28
               ELSE IF g.month \in {4, 6, 9, 11} THEN 30 ELSE 31)
  /\ g.hour <= 23
  /\ g.minute <= 59
  /\ g.second <= 59

\* C14: on an input spelled YYYYMMDDThh:mm:ss[.fraction] whose month, day,
\* hour, minute or second is out of range date_v yields no date value (it
\* does not fall through to the integer-nanosecond form on the leading
\* digits), and date_def fails on it.
C14_InvalidCompactDateFails ==
  (gen.fam = "compact" /\ ~InRange(gen)) =>
    /\ (op = "date_v" /\ gen.form = "value") => res.st # "Done"
    /\ (op = "date_def" /\ gen.form = "def") => res.st # "Done"

\* the value of a run of the family: its sign and magnitude, zero unsigned
RunValue(g) ==
  Num(g.neg /\ DigitRuns[g.run].mag # <<0>>, DigitRuns[g.run].mag)

\* C15: int_v succeeds on a run (an optional leading `-`, then digits)
\* exactly when its value is within [-2^63, 2^63 - 1], and then returns that
\* value; it fails on an empty run and on a value out of that range. The
\* unsigned digit-run parsers likewise fail on overflow.
C15_IntegerRunsChecked ==
  gen.fam = "run" =>
    /\ (op = "int_v" /\ gen.form = "value") =>
          IF (IF gen.neg THEN DigitRuns[gen.run].negi64
              ELSE DigitRuns[gen.run].i64)
          THEN /\ res.st = "Done"
               /\ res.val = RunValue(gen)
               /\ Remainder = gen.end
          ELSE res.st = "Error"
    /\ (op = "uint_def" /\ gen.form = "def") =>
          IF ~gen.neg /\ DigitRuns[gen.run].u64
          THEN /\ res.st = "Done"
               /\ res.val = Prop("UintDefault", RunValue(gen))
          ELSE res.st = "Error"

\* -9223372036854775808 is read, 9223372036854775808 is not
C15_Witness ==
  /\ op = "int_v"
  /\ gen.fam = "run"
  /\ DigitRuns[gen.run].mag = I64MinMag
  /\ gen.neg
  /\ res.st = "Done"
  /\ res.val = Num(TRUE, I64MinMag)
  /\ int_v(DigitRuns[gen.run].text, Start(1)).st = "Error"

\* the declared kind of an int or uint declaration of the family
DeclaredKind(g) == IF g.tag = 1 THEN "Int" ELSE "Uint"

\* the place in the buffer of the `;` that ends the declaration
SemicolonAt(g) ==
  Len(DeclTag(g)) + Len(DeclBodies[g.body].text)
    + (CHOOSE k \in 1..Len(g.end) : g.end[k] = 59)

\* C16: the grammar is name := type-tag [ '[' property+ ']' ] [;] : on
\* `Foo := int;` dtype returns the empty record of the declared kind and has
\* consumed the `;`, so that the remainder does not begin with it, exactly as
\* after the bracketed form `Foo := int [ def: 1; ];`.
C16_TrailingSemicolonConsumed ==
  (op = "dtype" /\ gen.fam = "decl" /\ gen.tag \in {1, 2}
     /\ 59 \in {gen.end[k] : k \in 1..Len(gen.end)}) =>
    /\ gen.body = 1 =>
          /\ res.st = "Done"
          /\ res.val = NewType(DeclaredKind(gen), <<70, 111, 111>>)
          /\ res.pos > SemicolonAt(gen)
    /\ gen.tag \in DeclBodies[gen.body].wellformed =>
          /\ res.st = "Done"
          /\ res.pos > SemicolonAt(gen)

\* C17: dtype never partially succeeds on a bracketed property list: when
\* the int or uint tag is followed (after separators) by `[`, dtype succeeds
\* only if a well-formed list of one or more properties of that type and `]`
\* follow, and has then read them; on an empty list, a malformed or
\* wrong-typed property or a missing `]` it fails instead of returning the
\* empty record with the bracketed text left in the remainder.
C17_BracketListAllOrNothing ==
  (op = "dtype" /\ gen.fam = "decl" /\ gen.tag \in {1, 2}
     /\ DeclBodies[gen.body].bracket /\ res.st = "Done") =>
    /\ gen.tag \in DeclBodies[gen.body].wellformed
    /\ res.pos > Len(DeclTag(gen)) + Len(DeclBodies[gen.body].text)

\* the kind a whole identifier denotes: that of the keyword it is, or none
KindOf(id) ==
  IF id = TypeKeywords.int THEN "Int"
  ELSE IF id = TypeKeywords.uint THEN "Uint"
  ELSE IF id = TypeKeywords.float THEN "Float"
  ELSE IF id = TypeKeywords.string THEN "String"
  ELSE IF id = TypeKeywords.date THEN "Date"
  ELSE IF id = TypeKeywords.binary THEN "Binary"
  ELSE IF id = TypeKeywords.container THEN "Container"
  ELSE "Name"

\* C18: type_ classifies by the whole identifier: an identifier that merely
\* begins with a keyword (`integer`, `uint8`) is Type::Name with the entire
\* identifier and none of it left in the remainder; a keyword kind is
\* returned only when the identifier is exactly that keyword.
C18_WholeIdentifierClassified ==
  (op = "type_" /\ gen.fam = "type") =>
    /\ res.st = "Done"
    /\ res.val = (IF KindOf(TypeTags[gen.tag]) = "Name"
                  THEN TypeName(TypeTags[gen.tag])
                  ELSE Type(KindOf(TypeTags[gen.tag])))
    /\ Remainder = gen.end

====
